---- MODULE Spec2Model ----
(***************************************************************************)
(* Model of src/index.js, the launcher for Cataclysm: Dark Days Ahead.     *)
(*                                                                         *)
(* The script is one top-level async flow (startup, prompt, install,       *)
(* launch) plus one unawaited background updateReleases() and the prompt's *)
(* key handlers.  JavaScript runs every callback to completion, so each    *)
(* action below is one stretch of code between two awaits.  The disk       *)
(* (releases.json, settings.json, the version directories, the temporary   *)
(* download directory) survives from one run of the script to the next.    *)
(***************************************************************************)
EXTENDS Integers, Sequences, FiniteSets, TLC

VARIABLES
    platform,        \* process.platform
    releasesFile,    \* content of cacheDir/releases.json
    settingsFile,    \* content of cacheDir/settings.json
    cache,           \* the entries of cacheDir named like a version
    tmpDir,          \* the temporary download directory exists
    pc,              \* position of the top-level flow
    fetched,         \* let fetched
    releases,        \* let releases
    cachedVersions,  \* const cachedVersions
    cachedReleases,  \* const cachedReleases
    lastVersion,     \* const lastVersion
    choices,         \* prompt.choices
    index,           \* prompt.index (1-based here)
    submitted,       \* prompt.state.submitted
    ur,              \* the running updateReleases() call
    del,             \* the prompt's delete() handler
    chosenRelease,   \* const chosenRelease
    inst,            \* the install pipeline's locals
    renders,         \* prompt.render() calls issued by the script in this run
    launched,        \* the launch step was reached in this run
    runs,            \* number of runs of the script started so far
    hist             \* observations of earlier steps, read by the properties

vars == <<platform, releasesFile, settingsFile, cache, tmpDir, pc, fetched,
          releases, cachedVersions, cachedReleases, lastVersion, choices,
          index, submitted, ur, del, chosenRelease, inst, renders, launched,
          runs, hist>>

disk == <<releasesFile, settingsFile, cache, tmpDir>>
promptVars == <<choices, index, submitted, del, renders>>
startupVars == <<cachedVersions, cachedReleases, lastVersion>>

----------------------------------------------------------------------------
(* Bounds *)

MaxRuns == 2

----------------------------------------------------------------------------
(* Values *)

Null == "null"
Undefined == "undefined"

Platforms == {"darwin", "linux", "win32"}

\* The asset names a release carries, and which of them each platform's
\* regular expression matches (the pattern occurs in the name).
OsxAsset == "cdda-osx-tiles-universal.dmg"
LinuxAsset == "cdda-linux-tiles-sounds-x64.tar.gz"
WinAsset == "cdda-windows-tiles-sounds-x64.zip"
SourceAsset == "cdda-source.zip"

assetMatch(p) ==
    CASE p = "darwin" -> {OsxAsset}
      [] p = "linux"  -> {LinuxAsset}
      [] p = "win32"  -> {WinAsset}

AllAssets == <<[name |-> SourceAsset], [name |-> OsxAsset],
               [name |-> LinuxAsset], [name |-> WinAsset]>>

\* A release published without a Windows build, and one that carries the
\* source archive only.
NoWinAssets == <<[name |-> SourceAsset], [name |-> OsxAsset],
                 [name |-> LinuxAsset]>>
SourceOnly == <<[name |-> SourceAsset]>>

Release(tag, at, pre, assets) ==
    [tag_name |-> tag, published_at |-> at, prerelease |-> pre,
     assets |-> assets]

S0 == Release("0.F", 1, FALSE, AllAssets)
E1 == Release("exp1", 2, TRUE, AllAssets)
S1 == Release("0.G", 3, FALSE, NoWinAssets)
E2 == Release("exp2", 4, TRUE, AllAssets)

\* A prerelease no platform's pattern matches; it is never offered, so no
\* cache entry is ever named after it.
E0 == Release("exp0", 2, TRUE, SourceOnly)

Releases == {S0, E1, S1, E2}
Tags == {r.tag_name : r \in Releases}
ReleaseOf(tag) == CHOOSE r \in Releases : r.tag_name = tag

\* What the remote index can answer: the release list, newest first, and the
\* "latest" pointer.
FetchLists == {<<E1, S0>>, <<E2, S1, E1, S0>>}
Latests == {S0, S1}

\* The JSON document of a non-success answer, seen through the fields the
\* script reads.
ErrBody ==
    [tag_name |-> Undefined, published_at |-> 0, prerelease |-> FALSE,
     assets |-> <<>>]

ArrayBody(l) == [kind |-> "array", items |-> l, obj |-> ErrBody]
ObjectBody(o) == [kind |-> "object", items |-> <<>>, obj |-> o]

\* A response of fetch(): net = FALSE is a transport error (fetch rejects).
HttpOk(body) == [net |-> TRUE, ok |-> TRUE, body |-> body]
HttpError == [net |-> TRUE, ok |-> FALSE, body |-> ObjectBody(ErrBody)]
TransportError == [net |-> FALSE, ok |-> FALSE, body |-> ObjectBody(ErrBody)]

ListResponses ==
    {HttpOk(ArrayBody(l)) : l \in FetchLists} \cup {HttpError, TransportError}
LatestResponses ==
    {HttpOk(ObjectBody(r)) : r \in Latests} \cup {HttpError, TransportError}

\* A settled promise.
Resolved(v) == [st |-> "ok", val |-> v]
Rejected == [st |-> "err", val |-> ObjectBody(ErrBody)]
Pending == [st |-> "pending", val |-> ObjectBody(ErrBody)]

----------------------------------------------------------------------------
(* Files *)

\* A file: missing (ENOENT), holding text that is no JSON document, or holding
\* the JSON text of a value.  JSON.stringify(value, null, 2) gives the text,
\* JSON.parse(contents) the value, and throws when the text does not parse.
Missing(none) == [st |-> "ENOENT", json |-> none]
Garbled(none) == [st |-> "corrupt", json |-> none]
JsonStringify(value) == [st |-> "ok", json |-> value]
Exists(file) == file.st # "ENOENT"
ParseOk(file) == file.st = "ok"
JsonParse(contents) == contents.json

NoSettings == [lastVersion |-> Undefined]
NoSnapshot == Missing(<<>>)
CorruptSnapshot == Garbled(<<>>)

----------------------------------------------------------------------------
(* Cache directory entries *)

\* kind: "absent", "file" or "dir"; of a directory, the payload copied into
\* it ("none", "partial", "full") and its release.json.
NoManifest == Missing(ErrBody)
CorruptManifest == Garbled(ErrBody)
Absent == [kind |-> "absent", payload |-> "none", manifest |-> NoManifest]
PlainFile == [kind |-> "file", payload |-> "none", manifest |-> NoManifest]
Dir(payload, manifest) ==
    [kind |-> "dir", payload |-> payload, manifest |-> manifest]
Installed(tag) == Dir("full", JsonStringify(ReleaseOf(tag)))

----------------------------------------------------------------------------
(* Pure helpers *)

Range(s) == {s[i] : i \in DOMAIN s}

\* maybeFetch without the response.ok test: every answer that arrives is
\* passed on.
maybeFetchUnchecked(response) ==
    IF response.net THEN Resolved(response.body) ELSE Rejected

\* maybeFetch: the response when it is ok, a rejection otherwise; fetch itself
\* rejects on a transport error.
maybeFetch(response) ==
    IF response.net /\ response.ok THEN Resolved(response.body) ELSE Rejected

\* byDate: negative when a sorts before b (the later publication first).
byDate(a, b) == b.published_at - a.published_at

\* Array.prototype.sort(byDate): a stable insertion sort.
RECURSIVE Insert(_, _)
Insert(r, sorted) ==
    IF sorted = <<>> THEN <<r>>
    ELSE IF byDate(r, Head(sorted)) < 0 THEN <<r>> \o sorted
         ELSE <<Head(sorted)>> \o Insert(r, Tail(sorted))

RECURSIVE Sort(_)
Sort(s) ==
    IF s = <<>> THEN <<>>
    ELSE Insert(s[Len(s)], Sort(SubSeq(s, 1, Len(s) - 1)))

\* fs.readdir(cacheDir): the names of the version entries, in name order.
ReaddirOrder == <<"0.F", "0.G", "exp1", "exp2">>
cacheDirContents(c) ==
    SelectSeq(ReaddirOrder, LAMBDA n : c[n].kind # "absent")

\* cachedVersions: the entries that are directories.
CachedVersionsOf(c) ==
    SelectSeq(cacheDirContents(c), LAMBDA n : c[n].kind = "dir")

\* cachedReleases: the manifests that can be read and parsed, null otherwise,
\* then filter(Boolean).
RECURSIVE ReadManifests(_, _)
ReadManifests(c, names) ==
    IF names = <<>> THEN <<>>
    ELSE (IF ParseOk(c[Head(names)].manifest)
          THEN <<JsonParse(c[Head(names)].manifest)>> ELSE <<>>)
         \o ReadManifests(c, Tail(names))

CachedReleasesOf(c) == ReadManifests(c, CachedVersionsOf(c))

\* settings: {} when the file is missing or does not parse.
SettingsOf(file) ==
    IF ParseOk(file) THEN JsonParse(file) ELSE NoSettings

\* lastVersion
LastVersionOf(versions, settings) ==
    IF settings.lastVersion \in Range(versions) THEN settings.lastVersion
    ELSE Null

HasAsset(release, p) ==
    \E i \in DOMAIN release.assets : release.assets[i].name \in assetMatch(p)

stableReleases(rs) == SelectSeq(rs, LAMBDA r : ~r.prerelease)
experimentalReleases(rs) == SelectSeq(rs, LAMBDA r : r.prerelease)

\* experimentalRelease: find() gives the first match, or undefined.
ExperimentalCandidates(rs, p) ==
    SelectSeq(experimentalReleases(rs), LAMBDA r : HasAsset(r, p))

\* A choice: the name is "Stable (<tag>)", "Latest Experimental (<tag>)" or
\* the bare tag; hint "(cached)", null, or the experimental entry's function.
Choice(label, release, hint) ==
    [label |-> label, value |-> release, hint |-> hint]

TailChoices(sortedReleases, stableTag) ==
    SelectSeq([i \in DOMAIN sortedReleases |->
               Choice("tag", sortedReleases[i], "(cached)")],
           LAMBDA ch : ch.value.tag_name # stableTag)

ChoicesOf(rs, versions, cachedRs, p) ==
    LET stable == stableReleases(rs)[1]
        experimental == ExperimentalCandidates(rs, p)[1]
    IN  <<Choice("Stable", stable,
                 IF stable.tag_name \in Range(versions) THEN "(cached)"
                 ELSE Null),
          Choice("Latest Experimental", experimental, "fn")>>
        \o TailChoices(Sort(cachedRs), stable.tag_name)

\* The name enquirer shows and matches `initial` against.
NameIs(choice, text) == choice.label = "tag" /\ choice.value.tag_name = text

\* A prompt built without `initial`: the cursor starts on the first choice.
InitialIndexFirst(cs, initial) == 1

\* Select's `initial`: the index of the choice with that name; the first
\* choice when the option is null or names no choice.
InitialIndex(cs, initial) ==
    IF \E i \in DOMAIN cs : NameIs(cs[i], initial)
    THEN CHOOSE i \in DOMAIN cs :
            /\ NameIs(cs[i], initial)
            /\ \A j \in DOMAIN cs : NameIs(cs[j], initial) => i <= j
    ELSE 1

\* The experimental entry's hint() when rendered.
ExperimentalHint(isFetched) ==
    IF isFetched THEN "(published ... ago)" ELSE "(fetching...)"

----------------------------------------------------------------------------
(* Initial values of the per-run state *)

NoUr == [mode |-> "none", rel |-> Pending, lat |-> Pending, phase |-> "none",
         result |-> <<>>]
NoDel == [phase |-> "idle", selected |-> ErrBody, confirm |-> FALSE]
NoInst == [asset |-> Undefined, file |-> "none"]
NoHist == [fileAtCall |-> NoSnapshot, cacheAtStart |-> [t \in Tags |-> Absent],
           lastAtStart |-> Undefined, initialChoices |-> <<>>,
           initialIndex |-> 0, fetchFailed |-> FALSE, refresh |-> "none",
           late |-> FALSE, committed |-> FALSE, failedAt |-> "none",
           prevFailed |-> Null, settingsAtStart |-> Missing(NoSettings),
           settingsWritten |-> FALSE]

----------------------------------------------------------------------------
(* Initial states: what a run can find on disk *)

OddEntries == {PlainFile, Dir("partial", NoManifest),
               Dir("full", CorruptManifest)}

CacheWith(installed) ==
    [t \in Tags |-> IF t \in installed THEN Installed(t) ELSE Absent]

InitCaches ==
    {CacheWith({}), CacheWith({"0.G"}), CacheWith({"0.F", "exp1"}),
     CacheWith({"0.F", "0.G", "exp1"})}
    \cup {[CacheWith({"exp1"}) EXCEPT !["0.G"] = e] : e \in OddEntries}
    \cup {[CacheWith({"0.G"}) EXCEPT !["exp1"] = e] : e \in OddEntries}

InitSnapshots ==
    {NoSnapshot, JsonStringify(<<S0, E1, S0>>),
     JsonStringify(<<S1, E2, S1, E1, S0>>),
     JsonStringify(<<S0, E0, S0>>), CorruptSnapshot}

InitSettings ==
    {Missing(NoSettings), Garbled(NoSettings)}
    \cup {JsonStringify([lastVersion |-> t]) : t \in {"0.G", "exp1"}}

Init ==
    /\ platform \in Platforms
    /\ releasesFile \in InitSnapshots
    /\ settingsFile \in InitSettings
    /\ cache \in InitCaches
    /\ tmpDir = FALSE
    /\ pc = "start"
    /\ fetched = FALSE
    /\ releases = <<>>
    /\ cachedVersions = <<>>
    /\ cachedReleases = <<>>
    /\ lastVersion = Null
    /\ choices = <<>>
    /\ index = 1
    /\ submitted = FALSE
    /\ ur = NoUr
    /\ del = NoDel
    /\ chosenRelease = ErrBody
    /\ inst = NoInst
    /\ renders = 0
    /\ launched = FALSE
    /\ runs = 1
    /\ hist = [NoHist EXCEPT !.cacheAtStart = cache,
                             !.settingsAtStart = settingsFile]

----------------------------------------------------------------------------
(* updateReleases(), lines 46-54, awaited on a first run and left in the   *)
(* background otherwise                                                    *)

CallUpdateReleases(mode) ==
    [mode |-> mode, rel |-> Pending, lat |-> Pending, phase |-> "fetching",
     result |-> <<>>]

\* A settled promise whose value nothing reads any more.
Forget(p) == [st |-> p.st, val |-> ObjectBody(ErrBody)]

\* The call once its result has been handed to whoever awaited it.
Finished(u) ==
    [mode |-> u.mode, rel |-> Forget(u.rel), lat |-> Forget(u.lat),
     phase |-> "done", result |-> <<>>]

\* Promise.all: rejected as soon as one fetch is, fulfilled when both are.
AllPhase(a, b) ==
    IF a.st = "err" \/ b.st = "err" THEN "rejected"
    ELSE IF a.st = "ok" /\ b.st = "ok" THEN "fulfilled"
    ELSE "fetching"

\* A write that keeps the entries of the old snapshot the new list lacks.
WriteSnapshotMerged(old, allReleases) ==
    JsonStringify(allReleases
                  \o SelectSeq(old.json, LAMBDA r : r \notin Range(allReleases)))

\* fs.writeFile(releasesFile, ...) replaces the content of the file.
WriteSnapshot(old, allReleases) == JsonStringify(allReleases)

\* Lines 47-53 once a fetch has settled: while Promise.all is pending nothing
\* happens; when it rejects, updateReleases() rejects; when it is fulfilled,
\* [latestRelease, ...releases] is written and returned (the spread throws
\* when the list answer is no array).
Continue(rel, lat) ==
    LET phase == AllPhase(rel, lat)
        allReleases == <<lat.val.obj>> \o rel.val.items
    IN  IF phase = "fetching"
        THEN /\ ur' = [ur EXCEPT !.rel = rel, !.lat = lat]
             /\ UNCHANGED releasesFile
        ELSE IF phase = "rejected" \/ rel.val.kind # "array"
        THEN /\ ur' = [ur EXCEPT !.rel = Forget(rel), !.lat = Forget(lat),
                                 !.phase = "rejected"]
             /\ UNCHANGED releasesFile
        ELSE /\ releasesFile' = WriteSnapshot(releasesFile, allReleases)
             /\ ur' = [ur EXCEPT !.rel = rel, !.lat = lat,
                                 !.phase = "written",
                                 !.result = allReleases]

\* getReleases() settles.
GetReleasesSettle ==
    /\ ur.phase = "fetching"
    /\ ur.rel.st = "pending"
    /\ \E response \in ListResponses :
          /\ Continue(maybeFetch(response), ur.lat)
          /\ hist' = [hist EXCEPT !.fetchFailed =
                          @ \/ ~(response.net /\ response.ok)]
    /\ UNCHANGED <<platform, settingsFile, cache, tmpDir, pc, fetched,
                   releases, startupVars, promptVars, chosenRelease, inst,
                   launched, runs>>

\* getLatestRelease() settles.
GetLatestSettle ==
    /\ ur.phase = "fetching"
    /\ ur.lat.st = "pending"
    /\ \E response \in LatestResponses :
          /\ Continue(ur.rel, maybeFetch(response))
          /\ hist' = [hist EXCEPT !.fetchFailed =
                          @ \/ ~(response.net /\ response.ok)]
    /\ UNCHANGED <<platform, settingsFile, cache, tmpDir, pc, fetched,
                   releases, startupVars, promptVars, chosenRelease, inst,
                   launched, runs>>

----------------------------------------------------------------------------
(* Startup, lines 55-136 and 160-175 *)

\* Line 57: does releases.json exist?
Start ==
    /\ pc = "start"
    /\ IF ~Exists(releasesFile)
       THEN /\ ur' = CallUpdateReleases("first")
            /\ pc' = "firstFetch"
       ELSE /\ pc' = "load"
            /\ UNCHANGED ur
    /\ hist' = [hist EXCEPT !.fileAtCall = releasesFile]
    /\ UNCHANGED <<platform, disk, fetched, releases, startupVars,
                   promptVars, chosenRelease, inst, launched, runs>>

\* Lines 59-61: the awaited first fetch returns, or its rejection ends the
\* script (nothing catches it).
FirstFetchDone ==
    /\ pc = "firstFetch"
    /\ ur.phase \in {"written", "rejected"}
    /\ IF ur.phase = "written"
       THEN /\ fetched' = TRUE
            /\ pc' = "load"
       ELSE /\ pc' = "crashed"
            /\ UNCHANGED fetched
    /\ ur' = Finished(ur)
    /\ UNCHANGED <<platform, disk, releases, startupVars, promptVars,
                   chosenRelease, inst, launched, runs, hist>>

\* Lines 64-136, the start of the background refresh (160) and the prompt's
\* first render (175).  A snapshot that does not parse, no stable release or
\* no experimental release with a matching asset throws at the top level.
Load ==
    /\ pc = "load"
    /\ IF ~ParseOk(releasesFile)
       THEN /\ pc' = "crashed"
            /\ UNCHANGED <<releases, startupVars, choices, index, ur, hist>>
       ELSE LET rs == JsonParse(releasesFile)
                versions == CachedVersionsOf(cache)
                cachedRs == CachedReleasesOf(cache)
                last == LastVersionOf(versions, SettingsOf(settingsFile))
            IN  /\ releases' = rs
                /\ cachedVersions' = versions
                /\ lastVersion' = last
                /\ IF stableReleases(rs) = <<>>
                      \/ ExperimentalCandidates(rs, platform) = <<>>
                   THEN /\ pc' = "crashed"
                        /\ cachedReleases' = cachedRs
                        /\ UNCHANGED <<choices, index, ur, hist>>
                   ELSE /\ cachedReleases' = Sort(cachedRs)
                        /\ choices' = ChoicesOf(rs, versions, cachedRs, platform)
                        /\ index' = InitialIndex(choices', last)
                        /\ ur' = IF fetched THEN ur
                                 ELSE CallUpdateReleases("bg")
                        /\ hist' = [hist EXCEPT
                               !.initialChoices = choices',
                               !.initialIndex = index',
                               !.lastAtStart =
                                   SettingsOf(settingsFile).lastVersion]
                        /\ pc' = "prompt"
    /\ UNCHANGED <<platform, disk, fetched, submitted, del, renders,
                   chosenRelease, inst, launched, runs>>

----------------------------------------------------------------------------
(* The handlers of the background updateReleases(), lines 160-171 *)

\* A handler without the submitted test.
HandlerNeverReturns(isSubmitted) == FALSE

\* A refresh whose rejection nothing handles: the process dies of it.
Unhandled(position) == "crashed"

\* "if (prompt.state.submitted) return"
HandlerReturns(isSubmitted) == isSubmitted

\* What the rejection of the background refresh does to the top-level flow:
\* .catch() handles it, the flow goes on where it is.
AfterRefreshFailure(position) == position

\* Lines 161-166.
RefreshThen ==
    /\ ur.mode = "bg"
    /\ ur.phase = "written"
    /\ IF HandlerReturns(submitted)
       THEN UNCHANGED <<fetched, releases, renders>>
       ELSE /\ fetched' = TRUE
            /\ releases' = ur.result
            /\ renders' = renders + 1
    /\ ur' = Finished(ur)
    /\ hist' = [hist EXCEPT !.late = submitted, !.refresh = "written"]
    /\ UNCHANGED <<platform, disk, pc, startupVars, choices, index, submitted,
                   del, chosenRelease, inst, launched, runs>>

\* Lines 166-171.
RefreshCatch ==
    /\ ur.mode = "bg"
    /\ ur.phase = "rejected"
    /\ IF HandlerReturns(submitted)
       THEN UNCHANGED <<fetched, renders>>
       ELSE /\ fetched' = TRUE
            /\ renders' = renders + 1
    /\ pc' = AfterRefreshFailure(pc)
    /\ ur' = Finished(ur)
    /\ hist' = [hist EXCEPT !.late = submitted, !.refresh = "failed"]
    /\ UNCHANGED <<platform, disk, releases, startupVars, choices, index,
                   submitted, del, chosenRelease, inst, launched, runs>>

----------------------------------------------------------------------------
(* The prompt, lines 132-158 and 174-176 *)

\* Cursor keys of the Select prompt; the list wraps around.
Down ==
    /\ pc = "prompt"
    /\ index' = IF index >= Len(choices) THEN 1 ELSE index + 1
    /\ UNCHANGED <<platform, disk, pc, fetched, releases, startupVars,
                   choices, submitted, ur, del, renders, chosenRelease, inst,
                   launched, runs, hist>>

Up ==
    /\ pc = "prompt"
    /\ index' = IF index <= 1 THEN Len(choices) ELSE index - 1
    /\ UNCHANGED <<platform, disk, pc, fetched, releases, startupVars,
                   choices, submitted, ur, del, renders, chosenRelease, inst,
                   launched, runs, hist>>

\* Enter: the prompt records the submission, then run() resolves.
Submit ==
    /\ pc = "prompt"
    /\ submitted' = TRUE
    /\ pc' = "submitted"
    /\ hist' = [hist EXCEPT !.committed = TRUE]
    /\ UNCHANGED <<platform, disk, fetched, releases, startupVars, choices,
                   index, ur, del, renders, chosenRelease, inst, launched,
                   runs>>

\* Line 176.
ReadChosen ==
    /\ pc = "submitted"
    /\ chosenRelease' = choices[index].value
    /\ pc' = "chosen"
    /\ UNCHANGED <<platform, disk, fetched, releases, startupVars,
                   promptVars, ur, inst, launched, runs, hist>>

\* Ctrl-C: the prompt is cancelled, run() rejects, line 229 catches.
UserCancel ==
    /\ pc = "prompt"
    /\ submitted' = TRUE
    /\ pc' = "done"
    /\ UNCHANGED <<platform, disk, fetched, releases, startupVars, choices,
                   index, ur, del, renders, chosenRelease, inst, launched,
                   runs, hist>>

\* Shift+D, lines 142-150: the selected release is noted, the Select prompt
\* is cancelled (its run() rejects, line 229 catches) and the confirmation
\* is asked.
DeletePress ==
    /\ pc = "prompt"
    /\ del' = [phase |-> "confirm", selected |-> choices[index].value,
               confirm |-> FALSE]
    /\ submitted' = TRUE
    /\ pc' = "done"
    /\ UNCHANGED <<platform, disk, fetched, releases, startupVars, choices,
                   index, ur, renders, chosenRelease, inst, launched, runs,
                   hist>>

\* Lines 150-153: the answer; on yes fs.rm(cacheDir/<tag>, {recursive: true}),
\* which throws when there is no such entry.
DeleteConfirm ==
    /\ del.phase = "confirm"
    /\ \E confirm \in BOOLEAN :
          LET tag == del.selected.tag_name
          IN  IF ~confirm
              THEN /\ del' = [del EXCEPT !.phase = "done"]
                   /\ UNCHANGED cache
              ELSE IF tag \in Tags /\ cache[tag].kind # "absent"
              THEN /\ cache' = [cache EXCEPT ![tag] = Absent]
                   /\ del' = [del EXCEPT !.phase = "removed",
                                         !.confirm = TRUE]
              ELSE /\ del' = [del EXCEPT !.phase = "failed",
                                         !.confirm = TRUE]
                   /\ UNCHANGED cache
    /\ UNCHANGED <<platform, releasesFile, settingsFile, tmpDir, pc, fetched,
                   releases, startupVars, choices, index, submitted, ur,
                   renders, chosenRelease, inst, launched, runs, hist>>

\* Lines 154-155.
DeleteFilter ==
    /\ del.phase = "removed"
    /\ choices' = SelectSeq(choices, LAMBDA choice :
                            choice.value.tag_name # del.selected.tag_name)
    /\ renders' = renders + 1
    /\ del' = [del EXCEPT !.phase = "done"]
    /\ UNCHANGED <<platform, disk, pc, fetched, releases, startupVars, index,
                   submitted, ur, chosenRelease, inst, launched, runs, hist>>

----------------------------------------------------------------------------
(* The install pipeline, lines 178-215; any throw is caught at line 229 *)

Fails(stage) ==
    /\ pc' = "done"
    /\ hist' = [hist EXCEPT !.failedAt = stage]

\* fetch(url) of the asset: rejects on a transport error only.
fetch(response) ==
    IF response.net THEN Resolved(response.body) ELSE Rejected

\* What ends up in the downloaded file: the archive, or the body of an
\* answer that is not the archive.
DownloadResponses == {HttpOk(ArrayBody(<<>>)), HttpError, TransportError}
FileOf(response) == IF response.ok THEN "archive" ELSE "garbage"

\* chosenRelease.assets.find(...): the name of the first asset the platform's
\* pattern matches, undefined when there is none.
FindAsset(release, p) ==
    LET matching == SelectSeq(release.assets, LAMBDA asset :
                               asset.name \in assetMatch(p))
    IN  IF matching = <<>> THEN Undefined ELSE matching[1].name

\* A read of the size that tolerates a missing asset (asset?.size).
SizeReadTolerant(asset) == FALSE

\* Line 181: asset.size throws a TypeError when asset is undefined.
SizeReadThrows(asset) == asset = Undefined

\* Lines 179-190: the cached check, the asset lookup, mkdtemp and the exit
\* handler.
CheckCached ==
    /\ pc = "chosen"
    /\ IF chosenRelease.tag_name \in Range(cachedVersions)
       THEN /\ pc' = "settings"
            /\ UNCHANGED <<tmpDir, inst, hist>>
       ELSE LET asset == FindAsset(chosenRelease, platform)
            IN  IF SizeReadThrows(asset)
                THEN /\ Fails("asset")
                     /\ UNCHANGED <<tmpDir, inst>>
                ELSE /\ tmpDir' = TRUE
                     /\ inst' = [inst EXCEPT !.asset = asset]
                     /\ pc' = "download"
                     /\ UNCHANGED hist
    /\ UNCHANGED <<platform, releasesFile, settingsFile, cache, fetched,
                   releases, startupVars, promptVars, ur, chosenRelease,
                   launched, runs>>

\* Lines 192-198: the body of the answer, whatever its status, is piped to
\* the file; the stream may fail.
Download ==
    /\ pc = "download"
    /\ \E response \in DownloadResponses, streamOk \in BOOLEAN :
          IF fetch(response).st = "ok" /\ streamOk
          THEN /\ inst' = [inst EXCEPT !.file = FileOf(response)]
               /\ pc' = IF platform = "darwin" THEN "attach" ELSE "manifest"
               /\ UNCHANGED hist
          ELSE /\ Fails("download")
               /\ UNCHANGED inst
    /\ UNCHANGED <<platform, disk, fetched, releases, startupVars,
                   promptVars, ur, chosenRelease, launched, runs>>

\* Lines 204-205 (darwin): hdiutil attach; it fails on a file that is no
\* disk image.
Attach ==
    /\ pc = "attach"
    /\ \E ok \in BOOLEAN :
          IF ok /\ inst.file = "archive"
          THEN pc' = "mkdir" /\ UNCHANGED hist
          ELSE Fails("extract")
    /\ UNCHANGED <<platform, disk, fetched, releases, startupVars,
                   promptVars, ur, chosenRelease, inst, launched, runs>>

\* Line 206 (darwin): mkdir(cacheDir/<tag>, {recursive: true}).
Mkdir ==
    /\ pc = "mkdir"
    /\ LET tag == chosenRelease.tag_name
       IN  IF cache[tag].kind = "file"
           THEN Fails("mkdir") /\ UNCHANGED cache
           ELSE /\ cache' = [cache EXCEPT ![tag] =
                                IF @.kind = "dir" THEN @
                                ELSE Dir("none", NoManifest)]
                /\ pc' = "cp"
                /\ UNCHANGED hist
    /\ UNCHANGED <<platform, releasesFile, settingsFile, tmpDir, fetched,
                   releases, startupVars, promptVars, ur, chosenRelease, inst,
                   launched, runs>>

\* A cp whose exit status nothing looks at.
ExitStatusIgnored(copied) == TRUE

\* await $`cp -R ...` throws when cp exits with a non-zero status, which it
\* does unless all was copied.
ExitStatusZero(copied) == copied = "full"

\* Line 207 (darwin): cp -R of the application into the directory.
Copy ==
    /\ pc = "cp"
    /\ LET tag == chosenRelease.tag_name
       IN  \E copied \in {"none", "partial", "full"} :
              /\ cache' = [cache EXCEPT ![tag].payload = copied]
              /\ IF ExitStatusZero(copied)
                 THEN pc' = "detach" /\ UNCHANGED hist
                 ELSE Fails("copy")
    /\ UNCHANGED <<platform, releasesFile, settingsFile, tmpDir, fetched,
                   releases, startupVars, promptVars, ur, chosenRelease, inst,
                   launched, runs>>

\* Line 208 (darwin): hdiutil detach.
Detach ==
    /\ pc = "detach"
    /\ \E ok \in BOOLEAN :
          IF ok THEN pc' = "manifest" /\ UNCHANGED hist
          ELSE Fails("detach")
    /\ UNCHANGED <<platform, disk, fetched, releases, startupVars,
                   promptVars, ur, chosenRelease, inst, launched, runs>>

\* Line 212: writeFile(cacheDir/<tag>/release.json) throws when the
\* directory does not exist.
WriteManifest ==
    /\ pc = "manifest"
    /\ LET tag == chosenRelease.tag_name
       IN  IF cache[tag].kind = "dir"
           THEN /\ cache' = [cache EXCEPT ![tag].manifest =
                                JsonStringify(chosenRelease)]
                /\ pc' = "settings"
                /\ UNCHANGED hist
           ELSE Fails("manifest") /\ UNCHANGED cache
    /\ UNCHANGED <<platform, releasesFile, settingsFile, tmpDir, fetched,
                   releases, startupVars, promptVars, ur, chosenRelease, inst,
                   launched, runs>>

----------------------------------------------------------------------------
(* Settings, launch and the end of the run, lines 217-230 *)

\* Lines 217-219.
WriteSettings ==
    /\ pc = "settings"
    /\ IF chosenRelease.tag_name # lastVersion
       THEN /\ settingsFile' =
                  JsonStringify([lastVersion |-> chosenRelease.tag_name])
            /\ hist' = [hist EXCEPT !.settingsWritten = TRUE]
       ELSE UNCHANGED <<settingsFile, hist>>
    /\ pc' = "launch"
    /\ UNCHANGED <<platform, releasesFile, cache, tmpDir, fetched, releases,
                   startupVars, promptVars, ur, chosenRelease, inst, launched,
                   runs>>

\* Lines 221-228.
Launch ==
    /\ pc = "launch"
    /\ launched' = TRUE
    /\ pc' = "done"
    /\ UNCHANGED <<platform, disk, fetched, releases, startupVars,
                   promptVars, ur, chosenRelease, inst, runs, hist>>

\* The process ends when the top-level flow is over and nothing is pending
\* (an uncaught rejection of the delete handler ends it at once); the exit
\* handler of lines 188-190 removes the temporary directory.
Exit ==
    /\ pc \in {"done", "crashed"}
    /\ del.phase \in {"idle", "done", "failed"}
    /\ ur.phase \in {"none", "done"} \/ del.phase = "failed"
    /\ tmpDir' = FALSE
    /\ pc' = "exited"
    /\ UNCHANGED <<platform, releasesFile, settingsFile, cache, fetched,
                   releases, startupVars, promptVars, ur, chosenRelease, inst,
                   launched, runs, hist>>

\* The script is started again on the disk the last run left.
NextRun ==
    /\ pc = "exited"
    /\ runs < MaxRuns
    /\ runs' = runs + 1
    /\ pc' = "start"
    /\ fetched' = FALSE
    /\ releases' = <<>>
    /\ cachedVersions' = <<>>
    /\ cachedReleases' = <<>>
    /\ lastVersion' = Null
    /\ choices' = <<>>
    /\ index' = 1
    /\ submitted' = FALSE
    /\ ur' = NoUr
    /\ del' = NoDel
    /\ chosenRelease' = ErrBody
    /\ inst' = NoInst
    /\ renders' = 0
    /\ launched' = FALSE
    /\ hist' = [NoHist EXCEPT
                   !.cacheAtStart = cache,
                   !.settingsAtStart = settingsFile,
                   !.prevFailed =
                       IF hist.failedAt \in {"download", "extract", "copy"}
                       THEN chosenRelease.tag_name ELSE Null]
    /\ UNCHANGED <<platform, disk>>

----------------------------------------------------------------------------

Next ==
    \/ Start
    \/ GetReleasesSettle
    \/ GetLatestSettle
    \/ FirstFetchDone
    \/ Load
    \/ RefreshThen
    \/ RefreshCatch
    \/ Down
    \/ Up
    \/ Submit
    \/ ReadChosen
    \/ UserCancel
    \/ DeletePress
    \/ DeleteConfirm
    \/ DeleteFilter
    \/ CheckCached
    \/ Download
    \/ Attach
    \/ Mkdir
    \/ Copy
    \/ Detach
    \/ WriteManifest
    \/ WriteSettings
    \/ Launch
    \/ Exit

\* One run of the script, from any of the initial disks.
Spec == Init /\ [][Next]_vars

\* Up to MaxRuns runs in a row, the first on a cache without versions.
InitRuns ==
    /\ Init
    /\ cache = CacheWith({})
    /\ settingsFile = Missing(NoSettings)

NextRuns == Next \/ NextRun

SpecRuns == InitRuns /\ [][NextRuns]_vars

----------------------------------------------------------------------------
(* Properties *)

\* A version the choice list shows as cached: an entry of that tag carries
\* the "(cached)" hint.
ReportedCached(cs, tag) ==
    \E i \in DOMAIN cs : cs[i].value.tag_name = tag /\ cs[i].hint = "(cached)"

\* The directory of the version holds a manifest that parses.
HasManifest(c, tag) == c[tag].kind = "dir" /\ ParseOk(c[tag].manifest)

\* C1: at startup a version is reported as cached (in the cached part of the
\* choice list, or marked "(cached)") if and only if its cache entry is a
\* directory whose release.json exists and parses.
C1_CacheEnumeration ==
    hist.initialChoices # <<>> =>
        \A t \in Tags :
            ReportedCached(hist.initialChoices, t)
                <=> HasManifest(hist.cacheAtStart, t)

\* C2: when updateReleases() has succeeded, releases.json holds exactly the
\* latest release followed by the release list of that fetch, whatever the
\* file held before.
C2_SnapshotReplaced ==
    ur.phase = "written" =>
        releasesFile = JsonStringify(<<ur.lat.val.obj>> \o ur.rel.val.items)

\* A background refresh has succeeded over a snapshot that held releases the
\* new fetch does not list.
C2_Witness ==
    /\ ur.phase = "written"
    /\ ur.mode = "bg"
    /\ \E i \in DOMAIN JsonParse(hist.fileAtCall) :
          JsonParse(hist.fileAtCall)[i] \notin Range(JsonParse(releasesFile))

\* C3: whenever the prompt has a choice list, the stable entry is first, the
\* experimental entry second, and the rest are cached entries in strictly
\* descending published_at order with no tag twice.
C3_Ordering ==
    choices # <<>> =>
        /\ Len(choices) >= 2
        /\ choices[1].label = "Stable"
        /\ choices[2].label = "Latest Experimental"
        /\ \A i \in 3..Len(choices) :
              /\ choices[i].label = "tag"
              /\ choices[i].hint = "(cached)"
        /\ \A i, j \in 3..Len(choices) :
              i < j =>
                /\ choices[i].value.published_at > choices[j].value.published_at
                /\ choices[i].value.tag_name # choices[j].value.tag_name

\* C4: a completion handler of the background refresh that runs once the
\* prompt is submitted changes neither the choice list, the cursor, fetched,
\* releases nor the chosen release, and renders nothing.
C4_NoMutationAfterCommit ==
    [][(/\ submitted
        /\ ur.mode = "bg"
        /\ ur.phase \in {"written", "rejected"}
        /\ ur'.phase = "done")
       => UNCHANGED <<choices, index, fetched, releases, chosenRelease,
                      renders>>]_vars

\* The refresh succeeded and its handler ran after the user had committed.
C4_Witness ==
    /\ hist.late
    /\ hist.committed
    /\ hist.refresh = "written"
    /\ pc = "chosen"

\* C5: after a run whose install failed at download, extraction or copy, the
\* temporary directory is gone and no later run reports the tag as cached.
C5_PipelineAtomicity ==
    /\ (pc = "exited" => ~tmpDir)
    /\ (runs > 1 /\ hist.prevFailed # Null /\ hist.initialChoices # <<>>) =>
          ~ReportedCached(hist.initialChoices, hist.prevFailed)

\* C6: a run that starts without snapshot and without cached versions,
\* commits the stable entry and meets no failing external step ends with
\* cacheDir/<tag>/release.json in place, on every platform.
C6_ScenarioA ==
    (/\ pc = "exited"
     /\ ~Exists(hist.fileAtCall)
     /\ hist.cacheAtStart = CacheWith({})
     /\ hist.committed
     /\ chosenRelease = hist.initialChoices[1].value
     /\ inst.file = "archive"
     /\ hist.failedAt \notin {"download", "extract", "copy", "detach"})
    => HasManifest(cache, chosenRelease.tag_name)

\* C7: when the background refresh has failed, the script has not died of
\* it, releases.json is what it was, the choice list is the one built at
\* startup (until a delete), and a run that committed a cached version
\* reaches the launch.
C7_OfflineRun ==
    hist.refresh = "failed" =>
        /\ pc # "crashed"
        /\ releasesFile = hist.fileAtCall
        /\ (del.phase = "idle" => choices = hist.initialChoices)
        /\ (/\ pc = "exited"
            /\ hist.committed
            /\ chosenRelease.tag_name \in Range(cachedVersions)) => launched

\* The refresh failed and the user launched a cached version.
C7_Witness ==
    /\ hist.refresh = "failed"
    /\ chosenRelease.tag_name \in Range(cachedVersions)
    /\ launched

\* C8: a version directory disappears only for the tag whose deletion was
\* confirmed; after a confirmed delete the tag is gone from disk and from the
\* choice list; after a declined one disk and list are as before and the
\* prompt still takes a selection.
C8_Delete ==
    /\ \A t \in Tags :
          (hist.cacheAtStart[t].kind # "absent" /\ cache[t].kind = "absent")
              => (del.confirm /\ del.selected.tag_name = t)
    /\ (del.phase = "done" /\ del.confirm) =>
          /\ cache[del.selected.tag_name].kind = "absent"
          /\ \A i \in DOMAIN choices :
                choices[i].value.tag_name # del.selected.tag_name
    /\ (/\ del.phase = "done"
        /\ ~del.confirm
        /\ HasManifest(hist.cacheAtStart, del.selected.tag_name)) =>
          /\ cache = hist.cacheAtStart
          /\ choices = hist.initialChoices
          /\ pc = "prompt"
          /\ ~submitted

\* C9: the prompt's first cursor is on a choice of the tag settings.json
\* names when that version is cached, and on the first choice otherwise.
C9_DefaultCursor ==
    hist.initialChoices # <<>> =>
        LET last == hist.lastAtStart
            cs == hist.initialChoices
            k == hist.initialIndex
        IN  /\ k \in DOMAIN cs
            /\ IF last \in Tags /\ HasManifest(hist.cacheAtStart, last)
               THEN cs[k].value.tag_name = last
               ELSE k = 1

\* The cursor starts below the two pinned entries, on the last version.
C9_Witness ==
    /\ pc = "prompt"
    /\ hist.initialIndex > 2
    /\ index = hist.initialIndex
    /\ choices[index].value.tag_name = hist.lastAtStart

\* C10: once one of the two fetches has failed (non-success status or
\* transport error), updateReleases() never succeeds and releases.json is
\* what it was before the call.
C10_AllOrNothing ==
    hist.fetchFailed =>
        /\ ur.phase \in {"rejected", "done"}
        /\ hist.refresh # "written"
        /\ releasesFile = hist.fileAtCall
        /\ (ur.mode = "first" /\ ur.phase = "done")
              => pc \in {"crashed", "exited"}

\* One fetch failed after the other had succeeded.
C10_Witness ==
    /\ hist.fetchFailed
    /\ ur.phase = "rejected"
    /\ ur.rel.st = "ok" \/ ur.lat.st = "ok"

\* C11: when the install pipeline of a run has failed, at whatever stage, the
\* cache directory is at the end of the run what it was when the pipeline
\* started (a run that installs deletes nothing, so that is the cache the
\* run found); no directory of the tag has appeared.
C11_CacheUnchangedOnFailure ==
    (pc = "exited" /\ hist.failedAt # "none") => cache = hist.cacheAtStart

\* C12: the manifest is the commit marker.  In every state a version
\* directory that holds a release.json holds the complete payload; a step
\* that writes a release.json finds the payload completely copied; and once
\* the pipeline of a run has written it (or has failed), nothing in that run
\* changes the cache any more.
C12_ManifestLast ==
    /\ [](\A t \in Tags :
            (cache[t].kind = "dir" /\ Exists(cache[t].manifest))
                => cache[t].payload = "full")
    /\ [][\A t \in Tags :
            (cache'[t].manifest # cache[t].manifest
             /\ Exists(cache'[t].manifest))
                => (cache[t].payload = "full" /\ cache'[t].payload = "full")
         ]_vars
    /\ [][(hist.committed /\ pc \in {"settings", "launch", "done", "exited"})
            => cache' = cache]_vars

\* The pipeline has just written the manifest of a version that had no
\* directory when the run started.
C12_Witness ==
    /\ pc = "settings"
    /\ hist.cacheAtStart[chosenRelease.tag_name].kind = "absent"
    /\ cache[chosenRelease.tag_name] = Dir("full", JsonStringify(chosenRelease))

\* C13: once the background refresh has succeeded while the prompt is still
\* open, the second entry is the experimental entry of the first release of
\* the refreshed list that is a prerelease with an asset for the platform.
C13_ResolvesInPlace ==
    (pc = "prompt" /\ hist.refresh = "written") =>
        /\ releases = JsonParse(releasesFile)
        /\ choices[2].label = "Latest Experimental"
        /\ choices[2].value = ExperimentalCandidates(releases, platform)[1]

\* C14: the experimental entry is committed only when it is no longer
\* pending, that is when fetched is true: the release list was fetched in this
\* run, or the background refresh has completed and its handler has run.
C14_PendingDisabled ==
    (hist.committed /\ choices[index].label = "Latest Experimental")
        => fetched

\* C15: when the loaded release list holds no prerelease with an asset for
\* the platform, the script does not fail: it goes on to a choice list
\* without experimental entry.
C15_NoExperimentalNotAnError ==
    (/\ releases # <<>>
     /\ ExperimentalCandidates(releases, platform) = <<>>)
    => /\ pc # "crashed"
       /\ choices # <<>>
       /\ \A i \in DOMAIN choices : choices[i].label # "Latest Experimental"

\* C16: a run that found settings.json, releases.json or a version's
\* release.json present but unparsable does not fail because of it: if the
\* script dies at all, a failed first fetch or a release list without
\* experimental release for the platform is the cause.
C16_CorruptNeverFatal ==
    LET corrupt ==
            \/ hist.fileAtCall.st = "corrupt"
            \/ hist.settingsAtStart.st = "corrupt"
            \/ \E t \in Tags : hist.cacheAtStart[t].manifest.st = "corrupt"
    IN  (corrupt /\ pc = "crashed") =>
            \/ hist.fetchFailed
            \/ /\ releases # <<>>
               /\ ExperimentalCandidates(releases, platform) = <<>>

\* C17: when the committed release is not cached and none of its assets
\* matches the platform's pattern, the pipeline fails at the asset lookup:
\* no temporary directory is made, the cache and settings.json stay what the
\* run found, and the launch is not reached.
C17_NoAssetNoMutation ==
    (/\ hist.committed
     /\ pc \notin {"submitted", "chosen"}
     /\ chosenRelease.tag_name \notin Range(cachedVersions)
     /\ ~HasAsset(chosenRelease, platform))
    => /\ pc \in {"done", "exited"}
       /\ hist.failedAt = "asset"
       /\ ~tmpDir
       /\ cache = hist.cacheAtStart
       /\ settingsFile = hist.settingsAtStart
       /\ ~hist.settingsWritten
       /\ ~launched

\* A run has ended after the commit of an uncached stable release that has
\* no asset for the platform.
C17_Witness ==
    /\ pc = "exited"
    /\ hist.committed
    /\ chosenRelease = choices[1].value
    /\ chosenRelease.tag_name \notin Range(cachedVersions)
    /\ ~HasAsset(chosenRelease, platform)

\* C18: settings.json is written in a run only after a commit and only when
\* the committed tag differs from the lastVersion the file held at startup;
\* it is written whenever such a run reaches the launch, and a run that does
\* not write it leaves the file as it was.
C18_SettingsWriteConditional ==
    /\ hist.settingsWritten =>
          /\ hist.committed
          /\ chosenRelease.tag_name # hist.lastAtStart
    /\ (launched /\ chosenRelease.tag_name # hist.lastAtStart)
          => hist.settingsWritten
    /\ ~hist.settingsWritten => settingsFile = hist.settingsAtStart

\* C19: the pipeline is past the download only when the asset request was
\* answered with a success status (the downloaded file is the archive), and
\* a download answered otherwise leaves no cache entry for the tag.
C19_DownloadRequiresOk ==
    /\ pc \in {"attach", "mkdir", "cp", "detach", "manifest"}
          => inst.file = "archive"
    /\ inst.file = "garbage"
          => cache[chosenRelease.tag_name]
                 = hist.cacheAtStart[chosenRelease.tag_name]

\* C20: in every run of a sequence of runs, the install is skipped for the
\* committed tag only if cacheDir/<tag>/release.json exists, and the launch
\* is reached only for a directory that holds the complete payload and a
\* release.json.
C20_LaunchVerified ==
    LET entry == cache[chosenRelease.tag_name]
    IN  /\ (pc \in {"settings", "launch"} /\ inst = NoInst)
              => (entry.kind = "dir" /\ Exists(entry.manifest))
        /\ launched
              => /\ entry.kind = "dir"
                 /\ Exists(entry.manifest)
                 /\ entry.payload = "full"

====
